---- MODULE Spec2Model ----
(***************************************************************************)
(* Figma-to-HTML/CSS converter: the HTMLGenerator tree walk, the layout    *)
(* and style converters it calls, and the command-line driver (main).      *)
(*                                                                         *)
(* Python values are represented as follows.                               *)
(*   dict            a TLA+ record / function from key strings; a key that *)
(*                   is absent from the dict is absent from DOMAIN          *)
(*   str             a sequence of tokens (one-character strings, or the   *)
(*                   literal pieces of an f-string); the empty str is <<>> *)
(*   list            a sequence                                            *)
(*   int             an integer; formatted into a str by IntToStr          *)
(*   None            the record None                                       *)
(***************************************************************************)
EXTENDS Integers, Sequences, FiniteSets, TLC

\* ------------------------------------------------------------------------
\* Bounds of the model
\* ------------------------------------------------------------------------

\* how many times generate_html_css is called on one HTMLGenerator object
MaxCalls == 2

\* the largest value given to the --page option
MaxPageArg == 1

\* ------------------------------------------------------------------------
\* Python helpers
\* ------------------------------------------------------------------------

None == [none |-> TRUE]

EmptyDict == [k \in {} |-> TRUE]

\* dict.get(key, default)
Get(d, key, default) == IF key \in DOMAIN d THEN d[key] ELSE default

\* truth value of `parent`: None and the empty dict are falsy
Truthy(d) == d # None /\ DOMAIN d # {}

DigitChars == <<"0", "1", "2", "3", "4", "5", "6", "7", "8", "9">>

RECURSIVE NatToStr(_)
NatToStr(n) ==
    IF n < 10 THEN <<DigitChars[n + 1]>>
    ELSE NatToStr(n \div 10) \o <<DigitChars[(n % 10) + 1]>>

\* f"{n}" for an int n
IntToStr(n) == IF n < 0 THEN <<"-">> \o NatToStr(0 - n) ELSE NatToStr(n)

\* sep.join(parts) for a list of strs
RECURSIVE Join(_, _)
Join(parts, sep) ==
    IF parts = <<>> THEN <<>>
    ELSE IF Len(parts) = 1 THEN parts[1]
    ELSE parts[1] \o <<sep>> \o Join(Tail(parts), sep)

Range(s) == {s[i] : i \in DOMAIN s}

\* ------------------------------------------------------------------------
\* LayoutConverter (layout_converter.py)
\* ------------------------------------------------------------------------

\* get_position_styles with the auto-layout test of the parent left out
get_position_styles_always(node, parent) ==
    LET abs_box == Get(node, "absoluteBoundingBox", EmptyDict)
        rel == Truthy(parent) /\ "absoluteBoundingBox" \in DOMAIN parent
        x == Get(abs_box, "x", 0)
             - (IF rel THEN Get(parent["absoluteBoundingBox"], "x", 0) ELSE 0)
        y == Get(abs_box, "y", 0)
             - (IF rel THEN Get(parent["absoluteBoundingBox"], "y", 0) ELSE 0)
    IN  << <<"position: absolute;">>,
           <<"left: ">> \o IntToStr(x) \o <<"px;">>,
           <<"top: ">> \o IntToStr(y) \o <<"px;">> >>

\* get_position_styles without the subtraction of the parent's origin
get_position_styles_docspace(node, parent) ==
    LET abs_box == Get(node, "absoluteBoundingBox", EmptyDict)
        x == Get(abs_box, "x", 0)
        y == Get(abs_box, "y", 0)
        flow == Truthy(parent)
                /\ Get(parent, "layoutMode", "") \in {"HORIZONTAL", "VERTICAL"}
    IN  IF flow THEN <<>>
        ELSE << <<"position: absolute;">>,
                <<"left: ">> \o IntToStr(x) \o <<"px;">>,
                <<"top: ">> \o IntToStr(y) \o <<"px;">> >>

\* An absent layoutMode (.get gives None) is written "": both are falsy and
\* neither is one of the compared literals.
get_position_styles(node, parent) ==
    LET abs_box == Get(node, "absoluteBoundingBox", EmptyDict)
        rel == Truthy(parent) /\ "absoluteBoundingBox" \in DOMAIN parent
        x == Get(abs_box, "x", 0)
             - (IF rel THEN Get(parent["absoluteBoundingBox"], "x", 0) ELSE 0)
        y == Get(abs_box, "y", 0)
             - (IF rel THEN Get(parent["absoluteBoundingBox"], "y", 0) ELSE 0)
        flow == Truthy(parent)
                /\ Get(parent, "layoutMode", "") \in {"HORIZONTAL", "VERTICAL"}
    IN  IF flow THEN <<>>
        ELSE << <<"position: absolute;">>,
                <<"left: ">> \o IntToStr(x) \o <<"px;">>,
                <<"top: ">> \o IntToStr(y) \o <<"px;">> >>

SizeDecl(prop, sizing, px) ==
    IF sizing = "FILL" THEN << <<prop, "100%;">> >>
    ELSE IF sizing = "HUG" THEN << <<prop, "fit-content;">> >>
    ELSE IF px > 0 THEN << <<prop>> \o IntToStr(px) \o <<"px;">> >>
    ELSE <<>>

get_size_styles(node) ==
    LET abs_box == Get(node, "absoluteBoundingBox", EmptyDict)
        width == Get(abs_box, "width", 0)
        height == Get(abs_box, "height", 0)
    IN  SizeDecl("width: ", Get(node, "layoutSizingHorizontal", ""), width)
        \o SizeDecl("height: ", Get(node, "layoutSizingVertical", ""), height)

JustifyDecl(primary_align) ==
    IF primary_align = "MIN" THEN << <<"justify-content: flex-start;">> >>
    ELSE IF primary_align = "CENTER" THEN << <<"justify-content: center;">> >>
    ELSE IF primary_align = "MAX" THEN << <<"justify-content: flex-end;">> >>
    ELSE IF primary_align = "SPACE_BETWEEN"
         THEN << <<"justify-content: space-between;">> >>
    ELSE <<>>

AlignDecl(counter_align) ==
    IF counter_align = "MIN" THEN << <<"align-items: flex-start;">> >>
    ELSE IF counter_align = "CENTER" THEN << <<"align-items: center;">> >>
    ELSE IF counter_align = "MAX" THEN << <<"align-items: flex-end;">> >>
    ELSE IF counter_align = "BASELINE" THEN << <<"align-items: baseline;">> >>
    ELSE <<>>

PaddingDecl(l, r, t, b) ==
    IF l = r /\ r = t /\ t = b
    THEN IF l > 0 THEN << <<"padding: ">> \o IntToStr(l) \o <<"px;">> >> ELSE <<>>
    ELSE IF t > 0 \/ r > 0 \/ b > 0 \/ l > 0
         THEN << <<"padding: ">> \o IntToStr(t) \o <<"px ">> \o IntToStr(r)
                 \o <<"px ">> \o IntToStr(b) \o <<"px ">> \o IntToStr(l)
                 \o <<"px;">> >>
         ELSE <<>>

get_auto_layout_styles(node) ==
    LET layout_mode == Get(node, "layoutMode", "")
        item_spacing == Get(node, "itemSpacing", 0)
    IN  IF layout_mode = "" \/ layout_mode = "NONE" THEN <<>>
        ELSE << <<"display: flex;">> >>
             \o (IF layout_mode = "HORIZONTAL"
                 THEN << <<"flex-direction: row;">> >>
                 ELSE IF layout_mode = "VERTICAL"
                 THEN << <<"flex-direction: column;">> >>
                 ELSE <<>>)
             \o JustifyDecl(Get(node, "primaryAxisAlignItems", "MIN"))
             \o AlignDecl(Get(node, "counterAxisAlignItems", "MIN"))
             \o (IF item_spacing > 0
                 THEN << <<"gap: ">> \o IntToStr(item_spacing) \o <<"px;">> >>
                 ELSE <<>>)
             \o PaddingDecl(Get(node, "paddingLeft", 0), Get(node, "paddingRight", 0),
                            Get(node, "paddingTop", 0), Get(node, "paddingBottom", 0))
             \o (IF Get(node, "layoutWrap", "NO_WRAP") = "WRAP"
                 THEN << <<"flex-wrap: wrap;">> >>
                 ELSE <<>>)

get_overflow_styles(node) ==
    IF Get(node, "clipsContent", FALSE) THEN << <<"overflow: hidden;">> >> ELSE <<>>

get_transform_styles(node) ==
    LET rotation == Get(node, "rotation", 0)
    IN  IF rotation # 0
        THEN << <<"transform: rotate(">> \o IntToStr(rotation) \o <<"deg);">> >>
        ELSE <<>>

\* ------------------------------------------------------------------------
\* StyleConverter (style_converter.py)
\*
\* A JSON number with a fractional part (a colour channel, an opacity, a
\* gradient stop position, a handle coordinate) is held in hundredths:
\* 50 stands for 0.5, 100 for the JSON integer 1.
\* ------------------------------------------------------------------------

RECURSIVE FracDigits(_, _)
FracDigits(n, den) ==
    IF n = 0 THEN <<>>
    ELSE <<DigitChars[((n * 10) \div den) + 1]>> \o FracDigits((n * 10) % den, den)

\* str(x) of the float n/den, n >= 0
FloatToStr(n, den) ==
    NatToStr(n \div den) \o <<".">>
    \o (IF n % den = 0 THEN <<"0">> ELSE FracDigits(n % den, den))

\* f"{x}" of a JSON number held in hundredths: an int when whole, else a float
NumToStr(h) == IF h % 100 = 0 THEN IntToStr(h \div 100) ELSE FloatToStr(h, 100)

rgba_to_css(color) ==
    LET r == (Get(color, "r", 0) * 255) \div 100
        g == (Get(color, "g", 0) * 255) \div 100
        b == (Get(color, "b", 0) * 255) \div 100
        a == Get(color, "a", 100)
    IN  <<"rgba(">> \o IntToStr(r) \o <<", ">> \o IntToStr(g) \o <<", ">>
        \o IntToStr(b) \o <<", ">> \o NumToStr(a) \o <<")">>

\* the rgba string rebuilt by get_background_styles when the fill opacity < 1
rgba_with_opacity(color, opacity) ==
    LET r == (Get(color, "r", 0) * 255) \div 100
        g == (Get(color, "g", 0) * 255) \div 100
        b == (Get(color, "b", 0) * 255) \div 100
        a == Get(color, "a", 100)
    IN  <<"rgba(">> \o IntToStr(r) \o <<",", " ">> \o IntToStr(g) \o <<",", " ">>
        \o IntToStr(b) \o <<",">> \o FloatToStr(a * opacity, 10000) \o <<")">>

\* math.degrees(math.atan2(dy, dx)) for the axis and diagonal directions,
\* the only handle directions the model's inputs use
Atan2Deg(dy, dx) ==
    IF dy = 0 THEN (IF dx < 0 THEN 180 ELSE 0)
    ELSE IF dx = 0 THEN (IF dy > 0 THEN 90 ELSE -90)
    ELSE IF dx > 0 THEN (IF dy > 0 THEN 45 ELSE -45)
    ELSE (IF dy > 0 THEN 135 ELSE -135)

\* f"{color} {position:.1f}%" for every stop, position = stop.position * 100
RECURSIVE PercentStops(_)
PercentStops(gradient_stops) ==
    IF gradient_stops = <<>> THEN <<>>
    ELSE << rgba_to_css(Get(gradient_stops[1], "color", EmptyDict)) \o <<" ">>
            \o IntToStr(Get(gradient_stops[1], "position", 0)) \o <<".0%">> >>
         \o PercentStops(Tail(gradient_stops))

\* f"{color} {position:.1f}deg" for every stop, position = stop.position * 360
RECURSIVE DegreeStops(_)
DegreeStops(gradient_stops) ==
    IF gradient_stops = <<>> THEN <<>>
    ELSE LET tenths == Get(gradient_stops[1], "position", 0) * 36
         IN  << rgba_to_css(Get(gradient_stops[1], "color", EmptyDict)) \o <<" ">>
                \o IntToStr(tenths \div 10) \o <<".", DigitChars[(tenths % 10) + 1], "deg">> >>
             \o DegreeStops(Tail(gradient_stops))

\* The gradient converters return None for a paint without stops; the
\* callers test the result for truth, and <<>> (the empty str) is falsy too.
_convert_linear_gradient(fill) ==
    LET gradient_stops == Get(fill, "gradientStops", <<>>)
        handles == Get(fill, "gradientHandlePositions", <<>>)
        angle == IF Len(handles) >= 2
                 THEN Atan2Deg(Get(handles[2], "y", 100) - Get(handles[1], "y", 0),
                               Get(handles[2], "x", 100) - Get(handles[1], "x", 0)) + 90
                 ELSE 180
    IN  IF gradient_stops = <<>> THEN <<>>
        ELSE <<"linear-gradient(">> \o IntToStr(angle) \o <<".0deg, ">>
             \o Join(PercentStops(gradient_stops), ", ") \o <<")">>

_convert_radial_gradient(fill) ==
    LET gradient_stops == Get(fill, "gradientStops", <<>>)
    IN  IF gradient_stops = <<>> THEN <<>>
        ELSE <<"radial-gradient(circle, ">>
             \o Join(PercentStops(gradient_stops), ", ") \o <<")">>

_convert_angular_gradient(fill) ==
    LET gradient_stops == Get(fill, "gradientStops", <<>>)
    IN  IF gradient_stops = <<>> THEN <<>>
        ELSE <<"conic-gradient(">>
             \o Join(DegreeStops(gradient_stops), ", ") \o <<")">>

BackgroundDecl(g) == IF g = <<>> THEN <<>> ELSE << <<"background: ">> \o g \o <<";">> >>

\* the declarations one fill contributes (the body of the loop over fills)
FillStyles(fill) ==
    LET fill_type == Get(fill, "type", "")
        opacity == Get(fill, "opacity", 100)
        color == Get(fill, "color", EmptyDict)
    IN  IF ~Get(fill, "visible", TRUE) THEN <<>>
        ELSE IF fill_type = "SOLID"
        THEN << <<"background-color: ">>
                \o (IF opacity < 100 THEN rgba_with_opacity(color, opacity)
                    ELSE rgba_to_css(color))
                \o <<";">> >>
        ELSE IF fill_type = "GRADIENT_LINEAR"
        THEN BackgroundDecl(_convert_linear_gradient(fill))
        ELSE IF fill_type = "GRADIENT_RADIAL"
        THEN BackgroundDecl(_convert_radial_gradient(fill))
        ELSE IF fill_type = "GRADIENT_ANGULAR"
        THEN BackgroundDecl(_convert_angular_gradient(fill))
        ELSE IF fill_type = "IMAGE" /\ Get(fill, "imageRef", "") # ""
        THEN << <<"/* background-image: requires image ref ", fill["imageRef"], " */">> >>
        ELSE <<>>

RECURSIVE FillsStyles(_)
FillsStyles(fills) ==
    IF fills = <<>> THEN <<>> ELSE FillStyles(fills[1]) \o FillsStyles(Tail(fills))

get_background_styles(node) == FillsStyles(Get(node, "fills", <<>>))

\* the declarations one stroke contributes (the body of the loop over strokes)
StrokeStyles(stroke, stroke_weight, stroke_align) ==
    LET stroke_type == Get(stroke, "type", "")
        gradient == _convert_linear_gradient(stroke)
    IN  IF ~Get(stroke, "visible", TRUE) THEN <<>>
        ELSE IF stroke_type = "SOLID"
        THEN << <<"border: ">> \o IntToStr(stroke_weight) \o <<"px solid ">>
                \o rgba_to_css(Get(stroke, "color", EmptyDict)) \o <<";">> >>
             \o (IF stroke_align = "OUTSIDE"
                 THEN << <<"box-sizing: content-box;">> >> ELSE <<>>)
        ELSE IF stroke_type = "GRADIENT_LINEAR" /\ gradient # <<>>
        THEN << <<"border: ">> \o IntToStr(stroke_weight) \o <<"px solid;">>,
                <<"border-image: ">> \o gradient \o <<" 1;">> >>
        ELSE <<>>

RECURSIVE StrokesStyles(_, _, _)
StrokesStyles(strokes, stroke_weight, stroke_align) ==
    IF strokes = <<>> THEN <<>>
    ELSE StrokeStyles(strokes[1], stroke_weight, stroke_align)
         \o StrokesStyles(Tail(strokes), stroke_weight, stroke_align)

SideWidthDecl(side, weights, stroke_weight) ==
    <<"border-", side, "-width: ">> \o IntToStr(Get(weights, side, stroke_weight))
    \o <<"px;">>

get_border_styles(node) ==
    LET strokes == Get(node, "strokes", <<>>)
        stroke_weight == Get(node, "strokeWeight", 0)
        stroke_align == Get(node, "strokeAlign", "INSIDE")
    IN  IF strokes = <<>> \/ stroke_weight = 0 THEN <<>>
        ELSE StrokesStyles(strokes, stroke_weight, stroke_align)
             \o (IF "individualStrokeWeights" \in DOMAIN node
                 THEN LET weights == node["individualStrokeWeights"]
                      IN  << SideWidthDecl("top", weights, stroke_weight),
                             SideWidthDecl("right", weights, stroke_weight),
                             SideWidthDecl("bottom", weights, stroke_weight),
                             SideWidthDecl("left", weights, stroke_weight) >>
                 ELSE <<>>)

get_border_radius(node) ==
    (IF "cornerRadius" \in DOMAIN node /\ Get(node, "cornerRadius", 0) > 0
     THEN << <<"border-radius: ">> \o IntToStr(node["cornerRadius"]) \o <<"px;">> >>
     ELSE <<>>)
    \o (IF "rectangleCornerRadii" \in DOMAIN node
           /\ Len(Get(node, "rectangleCornerRadii", <<>>)) = 4
        THEN LET radii == node["rectangleCornerRadii"]
             IN  << <<"border-radius: ">> \o IntToStr(radii[1]) \o <<"px ">>
                    \o IntToStr(radii[2]) \o <<"px ">> \o IntToStr(radii[3])
                    \o <<"px ">> \o IntToStr(radii[4]) \o <<"px;">> >>
        ELSE <<>>)

\* str.lower() on the enumeration words the converters lower-case
LowerWord(w) ==
    CASE w = "LEFT" -> "left" [] w = "RIGHT" -> "right" [] w = "CENTER" -> "center"
      [] w = "JUSTIFIED" -> "justified" [] w = "TOP" -> "top" [] w = "BOTTOM" -> "bottom"
      [] w = "UNDERLINE" -> "underline" [] w = "STRIKETHROUGH" -> "strikethrough"
      [] w = "NONE" -> "none" [] OTHER -> w

LineHeightDecl(style) ==
    IF "lineHeightPx" \in DOMAIN style
    THEN << <<"line-height: ">> \o IntToStr(style["lineHeightPx"]) \o <<"px;">> >>
    ELSE IF "lineHeightPercent" \in DOMAIN style
    THEN << <<"line-height: ">> \o FloatToStr(style["lineHeightPercent"], 100) \o <<";">> >>
    ELSE IF "lineHeightPercentFontSize" \in DOMAIN style
    THEN << <<"line-height: ">> \o FloatToStr(style["lineHeightPercentFontSize"], 100)
            \o <<";">> >>
    ELSE <<>>

TextAlignDecl(style) ==
    LET align == LowerWord(Get(style, "textAlignHorizontal", ""))
    IN  IF align \in {"left", "right", "center", "justified"}
        THEN << <<"text-align: ", IF align = "justified" THEN "justify" ELSE align, ";">> >>
        ELSE <<>>

VerticalAlignDecl(style) ==
    LET v_align == LowerWord(Get(style, "textAlignVertical", ""))
    IN  IF v_align = "top" THEN << <<"align-items: flex-start;">> >>
        ELSE IF v_align = "center" THEN << <<"align-items: center;">> >>
        ELSE IF v_align = "bottom" THEN << <<"align-items: flex-end;">> >>
        ELSE <<>>

TextDecorationDecl(style) ==
    LET decoration == LowerWord(Get(style, "textDecoration", ""))
    IN  IF decoration \in {"underline", "line-through", "strikethrough"}
        THEN << <<"text-decoration: ",
                  IF decoration = "strikethrough" THEN "line-through" ELSE decoration,
                  ";">> >>
        ELSE <<>>

TextCaseDecl(style) ==
    LET case == Get(style, "textCase", "")
    IN  IF case = "UPPER" THEN << <<"text-transform: uppercase;">> >>
        ELSE IF case = "LOWER" THEN << <<"text-transform: lowercase;">> >>
        ELSE IF case = "TITLE" THEN << <<"text-transform: capitalize;">> >>
        ELSE <<>>

get_text_styles(node) ==
    LET style == Get(node, "style", EmptyDict)
    IN  (IF "fontFamily" \in DOMAIN style
         THEN << <<"font-family: '", style["fontFamily"], "', sans-serif;">> >>
         ELSE <<>>)
        \o (IF "fontSize" \in DOMAIN style
            THEN << <<"font-size: ">> \o IntToStr(style["fontSize"]) \o <<"px;">> >>
            ELSE <<>>)
        \o (IF "fontWeight" \in DOMAIN style
            THEN << <<"font-weight: ">> \o IntToStr(style["fontWeight"]) \o <<";">> >>
            ELSE <<>>)
        \o LineHeightDecl(style)
        \o (IF "letterSpacing" \in DOMAIN style
            THEN << <<"letter-spacing: ">> \o IntToStr(style["letterSpacing"]) \o <<"px;">> >>
            ELSE <<>>)
        \o TextAlignDecl(style)
        \o VerticalAlignDecl(style)
        \o TextDecorationDecl(style)
        \o TextCaseDecl(style)

\* f"{x}px {y}px {radius}px {color}" of a shadow, with its "inset " prefix
ShadowStr(effect, prefix) ==
    LET offset == Get(effect, "offset", EmptyDict)
    IN  prefix \o IntToStr(Get(offset, "x", 0)) \o <<"px ">>
        \o IntToStr(Get(offset, "y", 0)) \o <<"px ">>
        \o IntToStr(Get(effect, "radius", 0)) \o <<"px ">>
        \o rgba_to_css(Get(effect, "color", EmptyDict))

\* the box_shadows list built by the loop over effects
RECURSIVE BoxShadows(_)
BoxShadows(effects) ==
    IF effects = <<>> THEN <<>>
    ELSE LET effect == effects[1]
             effect_type == Get(effect, "type", "")
         IN  (IF ~Get(effect, "visible", TRUE) THEN <<>>
              ELSE IF effect_type = "DROP_SHADOW" THEN << ShadowStr(effect, <<>>) >>
              ELSE IF effect_type = "INNER_SHADOW" THEN << ShadowStr(effect, <<"inset ">>) >>
              ELSE <<>>)
             \o BoxShadows(Tail(effects))

\* the filter declarations appended by the loop over effects
RECURSIVE BlurStyles(_)
BlurStyles(effects) ==
    IF effects = <<>> THEN <<>>
    ELSE LET effect == effects[1]
             effect_type == Get(effect, "type", "")
             radius == Get(effect, "radius", 0)
         IN  (IF ~Get(effect, "visible", TRUE) \/ radius <= 0 THEN <<>>
              ELSE IF effect_type = "LAYER_BLUR"
              THEN << <<"filter: blur(">> \o IntToStr(radius) \o <<"px);">> >>
              ELSE IF effect_type = "BACKGROUND_BLUR"
              THEN << <<"backdrop-filter: blur(">> \o IntToStr(radius) \o <<"px);">> >>
              ELSE <<>>)
             \o BlurStyles(Tail(effects))

get_effect_styles(node) ==
    LET effects == Get(node, "effects", <<>>)
        box_shadows == BoxShadows(effects)
    IN  BlurStyles(effects)
        \o (IF box_shadows # <<>>
            THEN << <<"box-shadow: ">> \o Join(box_shadows, ", ") \o <<";">> >>
            ELSE <<>>)

get_opacity(node) ==
    LET opacity == Get(node, "opacity", 100)
    IN  IF opacity < 100
        THEN << <<"opacity: ">> \o NumToStr(opacity) \o <<";">> >>
        ELSE <<>>

blend_mode_map ==
    [NORMAL |-> "normal", DARKEN |-> "darken", MULTIPLY |-> "multiply",
     COLOR_BURN |-> "color-burn", LIGHTEN |-> "lighten", SCREEN |-> "screen",
     COLOR_DODGE |-> "color-dodge", OVERLAY |-> "overlay", SOFT_LIGHT |-> "soft-light",
     HARD_LIGHT |-> "hard-light", DIFFERENCE |-> "difference", EXCLUSION |-> "exclusion",
     HUE |-> "hue", SATURATION |-> "saturation", COLOR |-> "color",
     LUMINOSITY |-> "luminosity"]

get_blend_mode(node) ==
    LET blend_mode == Get(node, "blendMode", "PASS_THROUGH")
    IN  IF blend_mode \in DOMAIN blend_mode_map
        THEN << <<"mix-blend-mode: ", blend_mode_map[blend_mode], ";">> >>
        ELSE <<>>

\* ------------------------------------------------------------------------
\* HTMLGenerator (html_generator.py): the pure parts
\* ------------------------------------------------------------------------

UpperChars ==
    <<"A", "B", "C", "D", "E", "F", "G", "H", "I", "J", "K", "L", "M",
      "N", "O", "P", "Q", "R", "S", "T", "U", "V", "W", "X", "Y", "Z">>

LowerChars ==
    <<"a", "b", "c", "d", "e", "f", "g", "h", "i", "j", "k", "l", "m",
      "n", "o", "p", "q", "r", "s", "t", "u", "v", "w", "x", "y", "z">>

\* str.lower() of one character
LowerChar(c) ==
    IF c \in Range(UpperChars)
    THEN LowerChars[CHOOSE i \in DOMAIN UpperChars : UpperChars[i] = c]
    ELSE c

\* str.isalnum() of one character: letters and digits, the ASCII ones and
\* the others Unicode has (here the letter e-acute)
IsAlnum(c) ==
    c \in Range(UpperChars) \cup Range(LowerChars) \cup Range(DigitChars) \cup {"é"}

\* ''.join(c if c.isalnum() or c == '-' else '_' for c in node_name.lower())
SanitizeName(node_name) ==
    [i \in DOMAIN node_name |->
        LET c == LowerChar(node_name[i])
        IN  IF IsAlnum(c) \/ c = "-" THEN c ELSE "_"]

\* safe_name[:30]
NameLimit == 30

Truncate(str, n) == IF Len(str) > n THEN SubSeq(str, 1, n) ELSE str

DefaultName == <<"e", "l", "e", "m", "e", "n", "t">>

\* the name returned for `node` when the counter has just become `counter`
_generate_class_name(node, counter) ==
    LET node_name == Get(node, "name", DefaultName)
        safe_name == Truncate(SanitizeName(node_name), NameLimit)
    IN  <<"figma-">> \o safe_name \o <<"-">> \o IntToStr(counter)

\* _collect_styles with the visual styles collected before the layout styles
_collect_styles_visual_first(node, parent) ==
    LET styles ==
            get_background_styles(node)
            \o get_border_styles(node)
            \o get_border_radius(node)
            \o get_effect_styles(node)
            \o get_opacity(node)
            \o get_blend_mode(node)
            \o get_auto_layout_styles(node)
            \o get_position_styles(node, parent)
            \o get_size_styles(node)
            \o get_overflow_styles(node)
            \o get_transform_styles(node)
    IN  IF Get(node, "type", "") = "TEXT"
        THEN LET with_text == styles \o get_text_styles(node)
             IN  (IF <<"display: flex;">> \in Range(with_text) THEN with_text
                  ELSE Append(with_text, <<"display: flex;">>))
                 \o << <<"align-items: center;">> >>
        ELSE styles

_collect_styles(node, parent) ==
    LET styles ==
            get_auto_layout_styles(node)
            \o get_position_styles(node, parent)
            \o get_size_styles(node)
            \o get_overflow_styles(node)
            \o get_transform_styles(node)
            \o get_background_styles(node)
            \o get_border_styles(node)
            \o get_border_radius(node)
            \o get_effect_styles(node)
            \o get_opacity(node)
            \o get_blend_mode(node)
    IN  IF Get(node, "type", "") = "TEXT"
        THEN LET with_text == styles \o get_text_styles(node)
             IN  (IF <<"display: flex;">> \in Range(with_text) THEN with_text
                  ELSE Append(with_text, <<"display: flex;">>))
                 \o << <<"align-items: center;">> >>
        ELSE styles

\* a character taken over without escaping
EscapeChar_raw(c) == <<c>>

\* html.escape(c) of one character (quote=True)
EscapeChar(c) ==
    CASE c = "&" -> <<"&", "a", "m", "p", ";">>
      [] c = "<" -> <<"&", "l", "t", ";">>
      [] c = ">" -> <<"&", "g", "t", ";">>
      [] c = "\"" -> <<"&", "q", "u", "o", "t", ";">>
      [] c = "'" -> <<"&", "#", "x", "2", "7", ";">>
      [] OTHER -> <<c>>

\* html.escape(text).replace('\n', '<br>')
RECURSIVE EscapeText(_)
EscapeText(text) ==
    IF text = <<>> THEN <<>>
    ELSE (IF text[1] = "\n" THEN <<"<", "b", "r", ">">> ELSE EscapeChar(text[1]))
         \o EscapeText(Tail(text))

DivOpen(class_name) == <<"<div class=\"">> \o class_name \o <<"\">">>

_generate_text_html(node, class_name) ==
    DivOpen(class_name) \o EscapeText(Get(node, "characters", <<>>)) \o <<"</div>">>

\* the f-string both _generate_container_html and _generate_shape_html return
\* once the children's markup has been collected in children_html
ContainerHtml(class_name, children_html) ==
    DivOpen(class_name) \o <<"\n">> \o Join(children_html, "\n") \o <<"\n", "</div>">>

EmptyShapeHtml(class_name) == DivOpen(class_name) \o <<"</div>">>

BaseBlock ==
    "/* Base styles */\n* {\n    box-sizing: border-box;\n    margin: 0;\n    padding: 0;\n}\n\nbody {\n    margin: 0;\n    padding: 0;\n    font-family: -apple-system, BlinkMacSystemFont, 'Segoe UI', 'Roboto', 'Helvetica', 'Arial', sans-serif;\n}\n\n/* Figma styles */"

\* the css_parts one side-table entry contributes
RuleParts(entry) ==
    IF entry.styles = <<>> THEN <<>>
    ELSE << <<".">> \o entry.class_name \o <<" {">> >>
         \o [i \in DOMAIN entry.styles |-> <<"    ">> \o entry.styles[i]]
         \o << <<"}\n">> >>

RECURSIVE RulesParts(_)
RulesParts(classes) ==
    IF classes = <<>> THEN <<>> ELSE RuleParts(classes[1]) \o RulesParts(Tail(classes))

\* the side table is an insertion-ordered dict, held as a sequence of
\* [class_name, styles] entries
_generate_css(classes) == Join(<< <<BaseBlock>> >> \o RulesParts(classes), "\n")

HtmlHead ==
    "<!DOCTYPE html>\n<html lang=\"en\">\n<head>\n    <meta charset=\"UTF-8\">\n    <meta name=\"viewport\" content=\"width=device-width, initial-scale=1.0\">\n    <title>Figma to HTML</title>\n    <link rel=\"stylesheet\" href=\"styles.css\">\n</head>\n<body>\n"

HtmlTail == "\n</body>\n</html>"

_wrap_html(content) == <<HtmlHead>> \o content \o <<HtmlTail>>

NoContentHtml == <<"<div>No content</div>">>

\* dict[key] = value on a dict that puts a new key before the others
DictSet_front(classes, key, value) ==
    IF \E i \in DOMAIN classes : classes[i].class_name = key
    THEN [i \in DOMAIN classes |->
            IF classes[i].class_name = key
            THEN [class_name |-> key, styles |-> value] ELSE classes[i]]
    ELSE <<[class_name |-> key, styles |-> value]>> \o classes

\* dict[key] = value: an existing key keeps its place and gets the new value
DictSet(classes, key, value) ==
    IF \E i \in DOMAIN classes : classes[i].class_name = key
    THEN [i \in DOMAIN classes |->
            IF classes[i].class_name = key
            THEN [class_name |-> key, styles |-> value] ELSE classes[i]]
    ELSE Append(classes, [class_name |-> key, styles |-> value])

StructuralTypes == {"DOCUMENT", "CANVAS"}

ShapeTypes == {"RECTANGLE", "ELLIPSE", "VECTOR", "STAR", "POLYGON"}

\* ------------------------------------------------------------------------
\* Input documents: the figma_data dicts the conversions are run on
\* ------------------------------------------------------------------------

Box(x, y, w, h) == [x |-> x, y |-> y, width |-> w, height |-> h]

RECURSIVE Repeat(_, _)
Repeat(str, n) == IF n = 0 THEN <<>> ELSE str \o Repeat(str, n - 1)

\* a name longer than the 30 characters a class name keeps of it
LongName == Repeat(<<"N", "a", "v", " ">>, 8)

\* leaf nodes
Leaves ==
    { [id |-> "3:1", type |-> "TEXT",
       characters |-> <<"H", "i", "\n", "<", "b", ">">>,
       absoluteBoundingBox |-> Box(10, 10, 50, 20)],
      [id |-> "3:2", type |-> "RECTANGLE", name |-> <<>>,
       absoluteBoundingBox |-> Box(15, 25, 4, 4)],
      [id |-> "3:3", type |-> "TEXT", name |-> <<"a", "-", "1">>, visible |-> FALSE,
       characters |-> <<"x">>] }

\* the nodes that hold a leaf
Holders(leaf) ==
    { [id |-> "2:1", type |-> "FRAME", name |-> <<"C", "a", "r", "d">>,
       absoluteBoundingBox |-> Box(10, 20, 100, 50), children |-> <<leaf>>],
      [id |-> "2:2", type |-> "FRAME", name |-> <<"R", "o", "w", " ", "1">>,
       layoutMode |-> "HORIZONTAL", itemSpacing |-> 8,
       paddingLeft |-> 4, paddingRight |-> 4, paddingTop |-> 4, paddingBottom |-> 4,
       absoluteBoundingBox |-> Box(10, 20, 100, 50), children |-> <<leaf>>],
      [id |-> "2:3", type |-> "FRAME", name |-> <<"C", "a", "r", "d">>,
       visible |-> FALSE,
       absoluteBoundingBox |-> Box(10, 20, 100, 50), children |-> <<leaf>>],
      [id |-> "2:4", type |-> "CANVAS", name |-> <<"I", "n", "n", "e", "r">>,
       absoluteBoundingBox |-> Box(3, 3, 0, 0), children |-> <<leaf>>],
      [id |-> "2:5", type |-> "RECTANGLE", name |-> LongName,
       layoutMode |-> "NONE",
       absoluteBoundingBox |-> Box(7, 9, 20, 20), children |-> <<leaf>>],
      [id |-> "2:6", type |-> "SLICE", layoutMode |-> "VERTICAL",
       children |-> <<leaf>>] }

\* the last child of every page: a childless shape named like the first holder
Sibling ==
    [id |-> "2:9", type |-> "ELLIPSE", name |-> <<"C", "a", "r", "d">>]

\* the pages
Pages(kids) ==
    { [id |-> "1:1", type |-> "CANVAS", name |-> <<"P", "a", "g", "e", " ", "1">>,
       children |-> kids],
      [id |-> "1:2", type |-> "CANVAS", name |-> <<"P", "a", "g", "e", " ", "1">>,
       layoutMode |-> "HORIZONTAL",
       absoluteBoundingBox |-> Box(5, 5, 0, 0), children |-> kids],
      [id |-> "1:3", type |-> "CANVAS", name |-> <<"P", "a", "g", "e", " ", "1">>,
       visible |-> FALSE, children |-> kids],
      [id |-> "1:4", type |-> "FRAME", name |-> <<"P", "-", "2">>,
       layoutMode |-> "VERTICAL",
       absoluteBoundingBox |-> Box(5, 5, 200, 200), children |-> kids],
      [id |-> "1:5", type |-> "FRAME", name |-> <<"P", "-", "2">>,
       absoluteBoundingBox |-> Box(5, 5, 200, 200), children |-> kids] }

\* a second page, never the first child of the document
OtherPage ==
    [id |-> "9:1", type |-> "CANVAS", name |-> <<"P", "a", "g", "e", " ", "2">>,
     children |-> << [id |-> "9:2", type |-> "FRAME", name |-> <<"O", "t", "h", "e", "r">>,
                      absoluteBoundingBox |-> Box(1, 2, 3, 4)] >>]

OnePageDocs ==
    { [document |-> [id |-> "0:0", type |-> "DOCUMENT", children |-> <<page>>]] :
        page \in UNION { UNION { Pages(<<holder, Sibling>>) : holder \in Holders(leaf) } :
                           leaf \in Leaves } }

TwoPageDocs ==
    { [document |-> [id |-> "0:0", type |-> "DOCUMENT", children |-> <<page, OtherPage>>]] :
        page \in Pages(<< [id |-> "2:1", type |-> "FRAME", name |-> <<"C", "a", "r", "d">>,
                           absoluteBoundingBox |-> Box(10, 20, 100, 50)] >>) }

\* documents without a page: no children, an empty children list, no document
EmptyDocs ==
    { [document |-> [id |-> "0:0", type |-> "DOCUMENT", children |-> <<>>]],
      [document |-> [id |-> "0:0", type |-> "DOCUMENT"]],
      [name |-> <<"f">>] }

\* a colour and gradient stops; channels and positions in hundredths
Pink == [r |-> 100, g |-> 0, b |-> 50, a |-> 100]

Stops == << [color |-> Pink, position |-> 0],
            [color |-> [r |-> 0, g |-> 0, b |-> 0, a |-> 50], position |-> 100] >>

\* nodes that carry layout, paint, stroke, effect and typography fields
StyledNodes ==
    { [id |-> "4:1", type |-> "FRAME", name |-> <<"G", "r", "i", "d">>,
       layoutMode |-> "GRID", itemSpacing |-> 8, layoutWrap |-> "WRAP",
       absoluteBoundingBox |-> Box(10, 20, 100, 50),
       children |-> << [id |-> "3:2", type |-> "RECTANGLE", name |-> <<>>,
                        absoluteBoundingBox |-> Box(15, 25, 4, 4)] >>],
      [id |-> "4:2", type |-> "TEXT", name |-> <<"T">>, characters |-> <<"A", "&", "B">>,
       layoutMode |-> "HORIZONTAL", counterAxisAlignItems |-> "MAX",
       style |-> [textAlignVertical |-> "TOP"],
       absoluteBoundingBox |-> Box(10, 10, 50, 20)],
      [id |-> "4:3", type |-> "TEXT", name |-> <<"T">>, characters |-> <<"'", "\"">>,
       style |-> [textAlignVertical |-> "BOTTOM", fontSize |-> 12,
                  textAlignHorizontal |-> "JUSTIFIED"],
       fills |-> << [type |-> "SOLID", color |-> Pink] >>,
       absoluteBoundingBox |-> Box(10, 10, 50, 20)],
      [id |-> "4:4", type |-> "TEXT", name |-> <<"T">>, characters |-> <<"\n", "\n">>,
       style |-> [textAlignVertical |-> "CENTER", fontWeight |-> 700],
       opacity |-> 50,
       absoluteBoundingBox |-> Box(10, 10, 50, 20)],
      [id |-> "4:5", type |-> "RECTANGLE", name |-> <<"B", "o", "x">>,
       fills |-> << [type |-> "SOLID", color |-> Pink, opacity |-> 50],
                    [type |-> "GRADIENT_RADIAL", gradientStops |-> Stops] >>,
       strokes |-> << [type |-> "SOLID", color |-> Pink] >>,
       strokeWeight |-> 2, strokeAlign |-> "OUTSIDE",
       cornerRadius |-> 4,
       effects |-> << [type |-> "LAYER_BLUR", radius |-> 3],
                      [type |-> "DROP_SHADOW", color |-> Pink, radius |-> 2,
                       offset |-> [x |-> 1, y |-> 1]] >>,
       opacity |-> 50, blendMode |-> "MULTIPLY",
       clipsContent |-> TRUE, rotation |-> 90,
       absoluteBoundingBox |-> Box(15, 25, 4, 4)],
      [id |-> "4:6", type |-> "RECTANGLE", name |-> <<"B", "o", "x">>,
       strokes |-> << [type |-> "GRADIENT_LINEAR", gradientStops |-> Stops] >>,
       strokeWeight |-> 1,
       absoluteBoundingBox |-> Box(15, 25, 4, 4)],
      [id |-> "4:7", type |-> "RECTANGLE", name |-> <<"B", "o", "x">>,
       strokes |-> << [type |-> "GRADIENT_RADIAL", gradientStops |-> Stops] >>,
       strokeWeight |-> 1,
       absoluteBoundingBox |-> Box(15, 25, 4, 4)],
      [id |-> "4:8", type |-> "RECTANGLE", name |-> <<"B", "o", "x">>,
       strokes |-> << [type |-> "GRADIENT_ANGULAR", gradientStops |-> Stops],
                      [type |-> "GRADIENT_LINEAR", gradientStops |-> <<>>] >>,
       strokeWeight |-> 1,
       absoluteBoundingBox |-> Box(15, 25, 4, 4)],
      [id |-> "4:9", type |-> "RECTANGLE", name |-> <<"B", "o", "x">>,
       strokes |-> << [type |-> "SOLID", color |-> Pink] >>,
       strokeWeight |-> 0, individualStrokeWeights |-> [top |-> 1],
       absoluteBoundingBox |-> Box(15, 25, 4, 4)],
      [id |-> "4:10", type |-> "RECTANGLE", name |-> <<"B", "o", "x">>,
       strokes |-> <<>>,
       strokeWeight |-> 2, individualStrokeWeights |-> [top |-> 1],
       absoluteBoundingBox |-> Box(15, 25, 4, 4)],
      [id |-> "4:11", type |-> "RECTANGLE", name |-> <<"B", "o", "x">>,
       strokes |-> << [type |-> "SOLID", color |-> Pink, visible |-> FALSE] >>,
       strokeWeight |-> 2, individualStrokeWeights |-> [top |-> 1],
       absoluteBoundingBox |-> Box(15, 25, 4, 4)],
      [id |-> "4:12", type |-> "TEXT",
       characters |-> <<"H", "i", "\n", "t", "h", "e", "r", "e">>,
       absoluteBoundingBox |-> Box(10, 10, 50, 20)] }

\* a styled node on a plain page, on an auto-layout page, and as the page
StyledDocs ==
    { [document |-> [id |-> "0:0", type |-> "DOCUMENT", children |-> <<page>>]] :
        page \in UNION { { [id |-> "1:1", type |-> "CANVAS",
                            name |-> <<"P", "a", "g", "e", " ", "1">>,
                            children |-> <<node, Sibling>>],
                           [id |-> "1:4", type |-> "FRAME", name |-> <<"P", "-", "2">>,
                            layoutMode |-> "VERTICAL",
                            absoluteBoundingBox |-> Box(5, 5, 200, 200),
                            children |-> <<node, Sibling>>],
                           node } : node \in StyledNodes } }

Docs == OnePageDocs \cup TwoPageDocs \cup EmptyDocs \cup StyledDocs

\* responses of the API in which a node carries "absoluteBoundingBox": null
NullBoxDocs ==
    { [document |-> [id |-> "0:0", type |-> "DOCUMENT", children |-> <<
         [id |-> "1:1", type |-> "CANVAS", name |-> <<"P", "a", "g", "e", " ", "1">>,
          children |-> <<holder>>] >>]] :
        holder \in
          { [id |-> "2:7", type |-> "RECTANGLE", name |-> <<"C", "a", "r", "d">>,
             absoluteBoundingBox |-> None],
            [id |-> "2:8", type |-> "FRAME", name |-> <<"C", "a", "r", "d">>,
             absoluteBoundingBox |-> Box(10, 20, 100, 50),
             children |-> << [id |-> "3:4", type |-> "TEXT", name |-> <<"a", "-", "1">>,
                              characters |-> <<"H", "i">>,
                              absoluteBoundingBox |-> None] >>] } }

\* ------------------------------------------------------------------------
\* State
\* ------------------------------------------------------------------------

VARIABLES
    css_classes,    \* HTMLGenerator.css_classes, the class -> styles side table
    class_counter,  \* HTMLGenerator.class_counter
    pc,             \* "idle": no conversion is running; "walk": one is;
                    \* "raised": one was left by an exception
    figma_data,     \* the argument of the running (or the last) conversion
    stack,          \* the call stack of the walk, outermost call first
    result,         \* what the last conversion returned: [html, css]
    calls,          \* conversions started on this HTMLGenerator object
    trace,          \* history: the visits of the running (or the last) conversion
    prev,           \* history: argument and result of the conversion before it
    mainpc,         \* where main is; "lib" when the class is used without main
    args,           \* main: the parsed command line
    fetched,        \* main: the figma_data that client.get_file returned
    env_token,      \* main: whether FIGMA_API_TOKEN is set
    files,          \* main: the files written so far, in order
    completed       \* main: whether "Conversion complete" was printed

genvars == <<css_classes, class_counter, pc, figma_data, stack, result, calls, trace, prev>>

mainvars == <<mainpc, args, fetched, env_token, files, completed>>

vars == <<css_classes, class_counter, pc, figma_data, stack, result, calls, trace, prev,
          mainpc, args, fetched, env_token, files, completed>>

NoResult == [html |-> <<"?">>, css |-> <<"?">>]

NoPrev == [figma_data |-> None, result |-> NoResult]

DefaultArgs == [page |-> 0, token |-> FALSE, save_json |-> FALSE]

\* a call of _generate_node_html that is iterating over `children`; the
\* bottom frame is generate_html_css itself, whose only "child" is the page
Frame(kind, node, class_name, children, childDepth) ==
    [kind |-> kind, node |-> node, class_name |-> class_name, children |-> children,
     childDepth |-> childDepth, i |-> 1, parts |-> <<>>]

Top == stack[Len(stack)]

HasNext == stack # <<>> /\ Top.i <= Len(Top.children)

\* a loop over children that takes the first child in every round
CurNode_first == Top.children[1]

\* the node and the parent of the call of _generate_node_html about to start
CurNode == Top.children[Top.i]

\* every loop over children passes its own node as the parent; the page is
\* visited with parent None
CurParent == Top.node

\* the callee returned `html` to the call on top of `stk`:
\* "if child_html: parts.append(child_html)", and the loop moves on
Deliver(stk, html) ==
    [stk EXCEPT ![Len(stk)] =
        [@ EXCEPT !.i = @ + 1,
                  !.parts = IF html # <<>> THEN Append(@, html) ELSE @]]

\* a node without its children
Shallow(node) == [k \in DOMAIN node \ {"children"} |-> node[k]]

ShallowOrNone(node) == IF node = None THEN None ELSE Shallow(node)

\* the ancestors of the node being visited: the nodes of the calls on the stack
Ancestors == [k \in 1..(Len(stack) - 1) |-> ShallowOrNone(stack[k + 1].node)]

Visit(outcome, class_name) ==
    [node |-> Shallow(CurNode), parent |-> ShallowOrNone(CurParent),
     ancestors |-> Ancestors, outcome |-> outcome, class_name |-> class_name]

\* HTMLGenerator(): the state after construction
NewGenerator ==
    /\ css_classes = <<>>
    /\ class_counter = 0
    /\ pc = "idle"
    /\ figma_data = None
    /\ stack = <<>>
    /\ result = NoResult
    /\ calls = 0
    /\ trace = <<>>
    /\ prev = NoPrev

Init ==
    /\ NewGenerator
    /\ mainpc = "lib"
    /\ args = DefaultArgs
    /\ fetched = None
    /\ env_token = FALSE
    /\ files = <<>>
    /\ completed = FALSE

\* ------------------------------------------------------------------------
\* HTMLGenerator: the conversion
\* ------------------------------------------------------------------------

\* generate_html_css up to its call of _generate_node_html(page, None), or
\* up to its return when the document has no children
generate_html_css(data) ==
    LET document == Get(data, "document", EmptyDict)
        children == Get(document, "children", <<>>)
    IN  /\ pc = "idle"
        /\ figma_data' = data
        /\ calls' = calls + 1
        /\ prev' = [figma_data |-> figma_data, result |-> result]
        /\ trace' = <<>>
        /\ UNCHANGED <<css_classes, class_counter>>
        /\ IF children = <<>>
           THEN /\ result' = [html |-> NoContentHtml, css |-> <<>>]
                /\ UNCHANGED <<pc, stack>>
           ELSE /\ pc' = "walk"
                /\ stack' = << Frame("root", None, <<>>, <<children[1]>>, 0) >>
                /\ UNCHANGED result

\* the class name, the style list and the side-table entry of a node that is
\* neither structural nor invisible (html_generator.py lines 75-82)
EmitClass == _generate_class_name(CurNode, class_counter + 1)

\* abs_box.get('x', 0) in get_position_styles raises AttributeError when the
\* node's absoluteBoundingBox is None
CollectRaises(node) ==
    "absoluteBoundingBox" \in DOMAIN node /\ node["absoluteBoundingBox"] = None

Emit ==
    /\ ~CollectRaises(CurNode)
    /\ class_counter' = class_counter + 1
    /\ css_classes' = DictSet(css_classes, EmitClass, _collect_styles(CurNode, CurParent))
    /\ trace' = Append(trace, Visit("emitted", EmitClass))

IsStructural(node) == Get(node, "type", "") \in StructuralTypes

IsVisible(node) == Get(node, "visible", TRUE)

WalkUnchanged == UNCHANGED <<pc, figma_data, result, calls, prev>> /\ UNCHANGED mainvars

\* _generate_node_html on a DOCUMENT or CANVAS node: start the loop over its
\* children, which are visited with this node as their parent and its depth
VisitStructural ==
    /\ pc = "walk" /\ HasNext
    /\ IsStructural(CurNode)
    /\ stack' = Append(stack, Frame("structural", CurNode, <<>>,
                                    Get(CurNode, "children", <<>>), Top.childDepth))
    /\ trace' = Append(trace, Visit("structural", <<>>))
    /\ UNCHANGED <<css_classes, class_counter>>
    /\ WalkUnchanged

\* _generate_node_html on an invisible node: return ''
VisitInvisible ==
    /\ pc = "walk" /\ HasNext
    /\ ~IsStructural(CurNode) /\ ~IsVisible(CurNode)
    /\ stack' = Deliver(stack, <<>>)
    /\ trace' = Append(trace, Visit("invisible", <<>>))
    /\ UNCHANGED <<css_classes, class_counter>>
    /\ WalkUnchanged

\* _generate_node_html on a visible TEXT node
VisitText ==
    /\ pc = "walk" /\ HasNext
    /\ ~IsStructural(CurNode) /\ IsVisible(CurNode)
    /\ Get(CurNode, "type", "") = "TEXT"
    /\ Emit
    /\ stack' = Deliver(stack, _generate_text_html(CurNode, EmitClass))
    /\ WalkUnchanged

\* _generate_node_html on a visible shape: _generate_shape_html, which starts
\* the loop over the children when there are any
VisitShape ==
    /\ pc = "walk" /\ HasNext
    /\ ~IsStructural(CurNode) /\ IsVisible(CurNode)
    /\ Get(CurNode, "type", "") \in ShapeTypes
    /\ Emit
    /\ stack' = IF Get(CurNode, "children", <<>>) # <<>>
                THEN Append(stack, Frame("shape", CurNode, EmitClass,
                                         CurNode["children"], Top.childDepth + 1))
                ELSE Deliver(stack, EmptyShapeHtml(EmitClass))
    /\ WalkUnchanged

\* _generate_node_html on a visible FRAME, GROUP, COMPONENT, INSTANCE or node
\* of any other type: _generate_container_html starts the loop over the children
VisitContainer ==
    /\ pc = "walk" /\ HasNext
    /\ ~IsStructural(CurNode) /\ IsVisible(CurNode)
    /\ Get(CurNode, "type", "") \notin ShapeTypes \cup {"TEXT"}
    /\ Emit
    /\ stack' = Append(stack, Frame("container", CurNode, EmitClass,
                                    Get(CurNode, "children", <<>>), Top.childDepth + 1))
    /\ WalkUnchanged

\* what a finished loop over children returns
FrameHtml(frame) ==
    IF frame.kind = "structural" THEN Join(frame.parts, "\n")
    ELSE ContainerHtml(frame.class_name, frame.parts)

\* the loop over the children of the innermost call is over: it returns
Return ==
    /\ pc = "walk" /\ Len(stack) > 1 /\ ~HasNext
    /\ stack' = Deliver(SubSeq(stack, 1, Len(stack) - 1), FrameHtml(Top))
    /\ UNCHANGED <<css_classes, class_counter, trace>>
    /\ WalkUnchanged

\* generate_html_css after the walk of the page: html_generator.py lines 36-44
Finish ==
    /\ pc = "walk" /\ Len(stack) = 1 /\ ~HasNext
    /\ LET html_content == IF Top.parts = <<>> THEN <<>> ELSE Top.parts[1]
       IN  result' = [html |-> _wrap_html(html_content),
                      css |-> _generate_css(css_classes)]
    /\ pc' = "idle"
    /\ stack' = <<>>
    /\ UNCHANGED <<css_classes, class_counter, figma_data, calls, trace, prev>>
    /\ UNCHANGED mainvars

\* the documents a caller passes to an HTMLGenerator object it has used
\* before, besides the document it passed last
FollowUpDocs == TwoPageDocs \cup EmptyDocs

\* a caller converts a document with the HTMLGenerator object it holds: any
\* document the first time; later the same document again or a follow-up one
Convert ==
    /\ mainpc = "lib"
    /\ calls < MaxCalls
    /\ \E data \in (IF calls = 0 THEN Docs ELSE {figma_data} \cup FollowUpDocs) :
          generate_html_css(data)
    /\ UNCHANGED mainvars

\* ------------------------------------------------------------------------
\* main (figam_to_html.py)
\* ------------------------------------------------------------------------

ArgSpace == [page : 0..MaxPageArg, token : BOOLEAN, save_json : BOOLEAN]

InitMain ==
    /\ NewGenerator
    /\ mainpc = "start"
    /\ args \in ArgSpace
    /\ fetched = None
    /\ env_token \in BOOLEAN
    /\ files = <<>>
    /\ completed = FALSE

\* the token check without its sys.exit(1)
MainTokenCheck_noexit ==
    /\ mainpc = "start"
    /\ mainpc' = "fetch"
    /\ UNCHANGED <<args, fetched, env_token, files, completed>>
    /\ UNCHANGED genvars

\* lines 94-110: without a token main exits with status 1
MainTokenCheck ==
    /\ mainpc = "start"
    /\ mainpc' = IF args.token \/ env_token THEN "fetch" ELSE "exit1"
    /\ UNCHANGED <<args, fetched, env_token, files, completed>>
    /\ UNCHANGED genvars

\* lines 115-118: client.get_file returns the file
MainFetch ==
    /\ mainpc = "fetch"
    /\ \E data \in Docs \cup NullBoxDocs : fetched' = data
    /\ mainpc' = IF args.save_json THEN "save_json" ELSE "generate"
    /\ UNCHANGED <<args, env_token, files, completed>>
    /\ UNCHANGED genvars

\* lines 121-126: the raw response is written when --save-json is given
MainSaveJson ==
    /\ mainpc = "save_json"
    /\ files' = Append(files, "figma_data.json")
    /\ mainpc' = "generate"
    /\ UNCHANGED <<args, fetched, env_token, completed>>
    /\ UNCHANGED genvars

\* lines 130-131: the call of generate_html_css on a new HTMLGenerator
MainGenerate ==
    /\ mainpc = "generate"
    /\ generate_html_css(fetched)
    /\ mainpc' = "converting"
    /\ UNCHANGED <<args, fetched, env_token, files, completed>>

\* line 135, save_to_files: index.html is written
MainSaveHtml ==
    /\ mainpc = "converting" /\ pc = "idle"
    /\ files' = Append(files, "index.html")
    /\ mainpc' = "save_css"
    /\ UNCHANGED <<args, fetched, env_token, completed>>
    /\ UNCHANGED genvars

\* save_to_files: styles.css is written; lines 137-138 report the result
MainSaveCss ==
    /\ mainpc = "save_css"
    /\ files' = Append(files, "styles.css")
    /\ completed' = TRUE
    /\ mainpc' = "exit0"
    /\ UNCHANGED <<args, fetched, env_token>>
    /\ UNCHANGED genvars

\* lines 140-144: the request, a directory or a file operation raises
MainFail ==
    /\ mainpc \in {"fetch", "save_json", "save_css"} \/ (mainpc = "converting" /\ pc = "idle")
    /\ mainpc' = "exit1"
    /\ UNCHANGED <<args, fetched, env_token, files, completed>>
    /\ UNCHANGED genvars

\* lines 131, 140-144: _collect_styles raises in the visit of a visible,
\* non-structural node, after _generate_class_name counted it; the exception
\* leaves every call of the walk and generate_html_css, and main catches it
MainConvertRaises ==
    /\ mainpc = "converting"
    /\ pc = "walk" /\ HasNext
    /\ ~IsStructural(CurNode) /\ IsVisible(CurNode)
    /\ CollectRaises(CurNode)
    /\ class_counter' = class_counter + 1
    /\ trace' = Append(trace, Visit("raised", EmitClass))
    /\ stack' = <<>>
    /\ pc' = "raised"
    /\ mainpc' = "exit1"
    /\ UNCHANGED <<css_classes, figma_data, result, calls, prev>>
    /\ UNCHANGED <<args, fetched, env_token, files, completed>>

Next ==
    \/ Convert
    \/ VisitStructural
    \/ VisitInvisible
    \/ VisitText
    \/ VisitShape
    \/ VisitContainer
    \/ Return
    \/ Finish

Spec == Init /\ [][Next]_vars

NextMain ==
    \/ MainTokenCheck
    \/ MainFetch
    \/ MainSaveJson
    \/ MainGenerate
    \/ VisitStructural
    \/ VisitInvisible
    \/ VisitText
    \/ VisitShape
    \/ VisitContainer
    \/ Return
    \/ Finish
    \/ MainConvertRaises
    \/ MainSaveHtml
    \/ MainSaveCss
    \/ MainFail

SpecMain == InitMain /\ [][NextMain]_vars

\* the steps of a running conversion
Walk ==
    \/ VisitStructural
    \/ VisitInvisible
    \/ VisitText
    \/ VisitShape
    \/ VisitContainer
    \/ Return
    \/ Finish

\* a call of generate_html_css runs on until it returns: Python executes
\* the recursion without waiting for anything
SpecLive == Init /\ [][Next]_vars /\ WF_vars(Walk)


\* ------------------------------------------------------------------------
\* Properties
\* ------------------------------------------------------------------------

\* a conversion has returned
Returned == pc = "idle" /\ calls >= 1

\* the children of the document of `data`
DocChildren(data) == Get(Get(data, "document", EmptyDict), "children", <<>>)

\* the visits of the running (or last) conversion that allocated a class
Emitted == SelectSeq(trace, LAMBDA e : e.outcome = "emitted")

\* the style list registered in the side table under `class_name`
StylesOf(class_name) ==
    LET i == CHOOSE j \in DOMAIN css_classes : css_classes[j].class_name = class_name
    IN  css_classes[i].styles

\* the side-table entries of the classes allocated by this conversion
OwnEntries ==
    [i \in DOMAIN Emitted |->
        [class_name |-> Emitted[i].class_name, styles |-> StylesOf(Emitted[i].class_name)]]

\* how many elements the markup `html` opens
NumElements(html) == Cardinality({i \in DOMAIN html : html[i] = "<div class=\""})

\* C1: converting the same tree twice in a row on one HTMLGenerator object
\* returns the same HTML and the same CSS both times.
C1_Determinism ==
    (Returned /\ calls >= 2 /\ prev.figma_data = figma_data) => result = prev.result

\* C2: every conversion call starts with an empty side table and the counter
\* at its initial value, and the CSS it returns holds rule blocks only for
\* the nodes of the tree passed to that call.
C2_PerCallIsolation ==
    /\ (pc = "walk" /\ trace = <<>>) => (css_classes = <<>> /\ class_counter = 0)
    /\ (Returned /\ DocChildren(figma_data) # <<>>) => result.css = _generate_css(OwnEntries)

\* C3: a node with visible = false, whatever its type, and every descendant
\* of it, gets no class, no rule and no element, and consumes no counter value.
C3_Visibility ==
    \A i \in DOMAIN trace :
        trace[i].outcome = "emitted" =>
            /\ IsVisible(trace[i].node)
            /\ \A k \in DOMAIN trace[i].ancestors : IsVisible(trace[i].ancestors[k])

\* the nearest ancestor that is not a DOCUMENT or CANVAS node, None without one
RECURSIVE StylingParent(_)
StylingParent(ancestors) ==
    IF ancestors = <<>> THEN None
    ELSE IF IsStructural(ancestors[Len(ancestors)])
    THEN StylingParent(SubSeq(ancestors, 1, Len(ancestors) - 1))
    ELSE ancestors[Len(ancestors)]

\* C4: a DOCUMENT or CANVAS node produces no class, and its children get the
\* style lists they would get as direct children of the structural node's
\* parent.
C4_StructuralTransparency ==
    \A i \in DOMAIN trace :
        /\ IsStructural(trace[i].node) => trace[i].outcome = "structural"
        /\ (trace[i].outcome = "emitted" /\ trace[i].ancestors # <<>>) =>
              StylesOf(trace[i].class_name)
                  = _collect_styles(trace[i].node, StylingParent(trace[i].ancestors))

\* a declaration of the position, left or top property
IsPositioning(decl) == decl[1] \in {"position: absolute;", "left: ", "top: "}

\* the parent passed to the visit lays its children out with flexbox
FlowParent(e) ==
    e.parent # None /\ Get(e.parent, "layoutMode", "") \in {"HORIZONTAL", "VERTICAL"}

\* C5: the style list of an emitted node whose parent has layoutMode
\* HORIZONTAL or VERTICAL holds no position, left or top declaration; the
\* style list of every other emitted node holds exactly one
\* "position: absolute;", directly followed by one left and one top declaration.
C5_PositioningExclusivity ==
    \A i \in DOMAIN trace :
        trace[i].outcome = "emitted" =>
            LET styles == StylesOf(trace[i].class_name)
                positioning == {k \in DOMAIN styles : IsPositioning(styles[k])}
            IN  IF FlowParent(trace[i])
                THEN positioning = {}
                ELSE \E k \in DOMAIN styles :
                        /\ positioning = {k, k + 1, k + 2}
                        /\ styles[k] = <<"position: absolute;">>
                        /\ styles[k + 1][1] = "left: "
                        /\ styles[k + 2][1] = "top: "

\* a conversion has emitted a child of a flex parent and a node of each other
\* kind: one visited without a parent, one whose parent has no auto-layout
C5_Witness ==
    /\ Returned
    /\ \E i \in DOMAIN trace : trace[i].outcome = "emitted" /\ FlowParent(trace[i])
    /\ \E i \in DOMAIN trace : trace[i].outcome = "emitted" /\ trace[i].parent = None
    /\ \E i \in DOMAIN trace :
          /\ trace[i].outcome = "emitted"
          /\ trace[i].parent # None /\ ~FlowParent(trace[i])

\* the origin of a node's bounding box, as get_position_styles reads it
OriginX(node) == Get(Get(node, "absoluteBoundingBox", EmptyDict), "x", 0)

OriginY(node) == Get(Get(node, "absoluteBoundingBox", EmptyDict), "y", 0)

LeftTop(x, y) ==
    << <<"left: ">> \o IntToStr(x) \o <<"px;">>, <<"top: ">> \o IntToStr(y) \o <<"px;">> >>

\* the left and top declarations of a style list, in their order
LeftTopOf(styles) == SelectSeq(styles, LAMBDA d : d[1] \in {"left: ", "top: "})

\* the visits that allocated a class and registered "position: absolute;"
IsPositioned(e) ==
    e.outcome = "emitted" /\ <<"position: absolute;">> \in Range(StylesOf(e.class_name))

\* C6: an absolutely positioned node that was visited with a parent has
\* left/top equal to its own origin minus the origin of that parent's
\* bounding box, also when the parent is a page without a bounding box; only
\* a node visited without a parent keeps its own origin.
C6_ParentRelative ==
    \A i \in DOMAIN trace :
        IsPositioned(trace[i]) =>
            LET e == trace[i]
                lt == LeftTopOf(StylesOf(e.class_name))
            IN  IF e.parent = None
                THEN lt = LeftTop(OriginX(e.node), OriginY(e.node))
                ELSE /\ "absoluteBoundingBox" \in DOMAIN e.parent
                     /\ lt = LeftTop(OriginX(e.node) - OriginX(e.parent),
                                     OriginY(e.node) - OriginY(e.parent))

\* C6 as amended: left/top are the node's origin minus the parent's origin
\* when the parent carries an absoluteBoundingBox; a node visited without a
\* parent, or whose parent carries no absoluteBoundingBox, keeps its own origin.
C6_ParentRelativeAmended ==
    \A i \in DOMAIN trace :
        IsPositioned(trace[i]) =>
            LET e == trace[i]
                lt == LeftTopOf(StylesOf(e.class_name))
            IN  IF e.parent # None /\ "absoluteBoundingBox" \in DOMAIN e.parent
                THEN lt = LeftTop(OriginX(e.node) - e.parent.absoluteBoundingBox.x,
                                  OriginY(e.node) - e.parent.absoluteBoundingBox.y)
                ELSE lt = LeftTop(OriginX(e.node), OriginY(e.node))

\* a conversion has positioned a node against a parent box away from the
\* document origin, and another under a parent that has no box
C6_Witness ==
    /\ Returned
    /\ \E i \in DOMAIN trace :
          /\ IsPositioned(trace[i])
          /\ trace[i].parent # None
          /\ "absoluteBoundingBox" \in DOMAIN trace[i].parent
          /\ OriginX(trace[i].parent) > 0 /\ OriginY(trace[i].parent) > 0
          /\ OriginX(trace[i].node) > 0
    /\ \E i \in DOMAIN trace :
          /\ IsPositioned(trace[i])
          /\ trace[i].parent # None
          /\ "absoluteBoundingBox" \notin DOMAIN trace[i].parent
          /\ OriginX(trace[i].node) > 0

\* the ids of the nodes under `node` that the claim expects to be emitted, in
\* document order: visible, not DOCUMENT/CANVAS, below no invisible node that
\* is not DOCUMENT/CANVAS
RECURSIVE EligibleIds(_)
EligibleIds(node) ==
    LET children == Get(node, "children", <<>>)
        below == [k \in DOMAIN children |-> EligibleIds(children[k])]
        flat[k \in 0..Len(children)] == IF k = 0 THEN <<>> ELSE flat[k - 1] \o below[k]
    IN  IF IsStructural(node) THEN flat[Len(children)]
        ELSE IF ~IsVisible(node) THEN <<>>
        ELSE <<node.id>> \o flat[Len(children)]

\* the class names the markup opens elements with, in their order: each
\* stands between the opening piece and the piece closing the attribute
ElementClasses(html) ==
    LET opens == SelectSeq([i \in DOMAIN html |-> i], LAMBDA i : html[i] = "<div class=\"")
        close(i) == CHOOSE j \in DOMAIN html :
                        /\ j > i /\ html[j] = "\">"
                        /\ \A k \in (i + 1)..(j - 1) : html[k] # "\">"
    IN  [n \in DOMAIN opens |-> SubSeq(html, opens[n] + 1, close(opens[n]) - 1)]

\* C7: after a conversion every visible non-structural node of the first
\* page without an invisible non-structural ancestor has exactly one class
\* and one element carrying it, DOCUMENT/CANVAS nodes have none, and the
\* final counter value is the number of elements of the markup and the
\* number of side-table entries.
C7_OneClassOneElement ==
    (Returned /\ DocChildren(figma_data) # <<>>) =>
        /\ [i \in DOMAIN Emitted |-> Emitted[i].node.id]
               = EligibleIds(DocChildren(figma_data)[1])
        /\ ElementClasses(result.html) = [i \in DOMAIN Emitted |-> Emitted[i].class_name]
        /\ \A i, j \in DOMAIN Emitted :
              Emitted[i].class_name = Emitted[j].class_name => i = j
        /\ class_counter = NumElements(result.html)
        /\ class_counter = Len(css_classes)

\* C8: for a document without children the conversion returns the HTML
\* '<div>No content</div>' and a CSS equal to the base block alone.
C8_EmptyDocument ==
    (Returned /\ DocChildren(figma_data) = <<>>) =>
        /\ result.html = NoContentHtml
        /\ result.css = <<BaseBlock>>

\* the characters a sanitized name is made of
SafeChars == Range(LowerChars) \cup Range(DigitChars) \cup {"-", "_", "é"}

\* C9: within one conversion the n-th emitted node gets the class name
\* 'figma-' + sanitized name + '-' + n, the counter starting at 1 and growing
\* by 1 per emitted node, the sanitized name being at most 30 characters out
\* of lowercase alphanumerics, '-' and '_'; no two emitted nodes share a name.
C9_ClassNames ==
    /\ \A i \in DOMAIN Emitted :
          LET name == Emitted[i].class_name
              digits == IntToStr(i)
              cut == Len(name) - Len(digits)
          IN  /\ cut >= 2
              /\ name[1] = "figma-"
              /\ SubSeq(name, cut + 1, Len(name)) = digits
              /\ name[cut] = "-"
              /\ cut - 2 <= NameLimit
              /\ \A k \in 2..(cut - 1) : name[k] \in SafeChars
    /\ \A i, j \in DOMAIN Emitted :
          Emitted[i].class_name = Emitted[j].class_name => i = j

\* C10: main converts the page the --page option names, children[N].
C10_PageSelection ==
    (mainpc \in {"converting", "save_css", "exit0"} /\ trace # <<>>
        /\ args.page < Len(DocChildren(fetched))) =>
        trace[1].node = Shallow(DocChildren(fetched)[args.page + 1])

\* the output files of save_to_files
OutputFiles == {"index.html", "styles.css"}

\* C11: a run of main without a token exits with status 1 before any fetch,
\* conversion or file write; a run in which the fetch, the conversion or a
\* file operation raises ends with status 1; "Conversion complete" is
\* reported, and status 0 reached, only by a run that wrote both output
\* files, and these are written only after the conversion returned.
C11_FailurePath ==
    /\ completed => mainpc = "exit0"
    /\ pc = "raised" => mainpc = "exit1"
    /\ mainpc = "exit0" =>
          /\ completed
          /\ args.token \/ env_token
          /\ SelectSeq(files, LAMBDA f : f \in OutputFiles) = <<"index.html", "styles.css">>
    /\ ~(args.token \/ env_token) =>
          /\ mainpc \in {"start", "exit1"}
          /\ fetched = None /\ calls = 0 /\ files = <<>>
    /\ (\E i \in DOMAIN files : files[i] \in OutputFiles) =>
          /\ calls = 1 /\ pc = "idle"
          /\ result # NoResult

\* main caught an exception of the conversion after writing the raw response
C11_Witness ==
    /\ mainpc = "exit1" /\ pc = "raised"
    /\ files = <<"figma_data.json">>
    /\ Len(trace) > 1 /\ ~completed

\* the visits that allocated a class for a node of the given type or not
IsText(e) == Get(e.node, "type", "") = "TEXT"

\* the node of the visit declares layoutMode HORIZONTAL or VERTICAL
OwnFlow(e) == Get(e.node, "layoutMode", "") \in {"HORIZONTAL", "VERTICAL"}

\* the declarations of the flex-container setup other than display and
\* align-items, which a TEXT node also gets from its typography
FlexSetupProps ==
    {"flex-direction: row;", "flex-direction: column;", "justify-content: flex-start;",
     "justify-content: center;", "justify-content: flex-end;",
     "justify-content: space-between;", "gap: ", "padding: ", "flex-wrap: wrap;"}

AlignItemsProps ==
    {"align-items: flex-start;", "align-items: center;", "align-items: flex-end;",
     "align-items: baseline;"}

\* the visit, earlier in the trace, of the parent of visit e
ParentVisits(e) ==
    {j \in DOMAIN trace : trace[j].outcome = "emitted" /\ trace[j].node = e.parent}

\* C12: an emitted node's style list holds the flex-container setup
\* (display: flex from the layout derivation, flex-direction,
\* justify-content, align-items, gap, padding, flex-wrap) if and only if its
\* own layoutMode is HORIZONTAL or VERTICAL, and none of it for an absent,
\* NONE or other layoutMode; a node is a flex container exactly when its
\* children get no absolute positioning.
C12_FlexOnlyRowColumn ==
    \A i \in DOMAIN trace :
        trace[i].outcome = "emitted" =>
            LET e == trace[i]
                styles == StylesOf(e.class_name)
                firsts == {styles[k][1] : k \in DOMAIN styles}
            IN  /\ ~IsText(e) => ("display: flex;" \in firsts <=> OwnFlow(e))
                /\ OwnFlow(e) => "display: flex;" \in firsts
                /\ ~OwnFlow(e) => firsts \cap FlexSetupProps = {}
                /\ (~OwnFlow(e) /\ ~IsText(e)) => firsts \cap AlignItemsProps = {}
                /\ \A j \in ParentVisits(e) :
                      LET pstyles == StylesOf(trace[j].class_name)
                      IN  (<<"display: flex;">> \in Range(pstyles) /\ ~IsText(trace[j]))
                              <=> (\A k \in DOMAIN styles : ~IsPositioning(styles[k]))

\* the style list of _collect_styles before the text-specific display
\* properties are added to it
BeforeCentering(node, parent) ==
    get_auto_layout_styles(node)
    \o get_position_styles(node, parent)
    \o get_size_styles(node)
    \o get_overflow_styles(node)
    \o get_transform_styles(node)
    \o get_background_styles(node)
    \o get_border_styles(node)
    \o get_border_radius(node)
    \o get_effect_styles(node)
    \o get_opacity(node)
    \o get_blend_mode(node)
    \o get_text_styles(node)

\* C13: for an emitted TEXT node the pair "display: flex;",
\* "align-items: center;" is appended to the style list only when the list
\* does not hold "display: flex;" yet; when it does, nothing is appended.
C13_TextCentering ==
    \A i \in DOMAIN trace :
        (trace[i].outcome = "emitted" /\ IsText(trace[i])) =>
            LET before == BeforeCentering(trace[i].node, trace[i].parent)
                styles == StylesOf(trace[i].class_name)
            IN  IF <<"display: flex;">> \in Range(before)
                THEN styles = before
                ELSE styles = before \o << <<"display: flex;">>, <<"align-items: center;">> >>

\* the last align-items declaration of a style list, <<>> without one
LastAlignItems(styles) ==
    LET at == {k \in DOMAIN styles : styles[k][1] \in AlignItemsProps}
    IN  IF at = {} THEN <<>> ELSE styles[CHOOSE k \in at : \A m \in at : m <= k]

\* C14: for an emitted TEXT node with textAlignVertical TOP, CENTER or
\* BOTTOM the last align-items declaration of its registered style list is
\* flex-start, center or flex-end respectively.
C14_TextVerticalAlign ==
    \A i \in DOMAIN trace :
        (trace[i].outcome = "emitted" /\ IsText(trace[i])) =>
            LET v_align == Get(Get(trace[i].node, "style", EmptyDict), "textAlignVertical", "")
                last == LastAlignItems(StylesOf(trace[i].class_name))
            IN  /\ v_align = "TOP" => last = <<"align-items: flex-start;">>
                /\ v_align = "CENTER" => last = <<"align-items: center;">>
                /\ v_align = "BOTTOM" => last = <<"align-items: flex-end;">>

\* the groups of a style list, in the order the claim gives them:
\* 0 layout, 1 fills, 2 strokes, 3 corner radius, 4 effects, 5 opacity,
\* 6 blend mode, 7 typography, 8 the text-centering declarations
LayoutProps ==
    FlexSetupProps \cup AlignItemsProps
    \cup {"display: flex;", "position: absolute;", "left: ", "top: ", "width: ", "height: ",
          "overflow: hidden;", "transform: rotate("}

GroupProps ==
    << {"background-color: ", "background: ", "/* background-image: requires image ref "},
       {"border: ", "box-sizing: content-box;", "border-image: ", "border-"},
       {"border-radius: "},
       {"filter: blur(", "backdrop-filter: blur(", "box-shadow: "},
       {"opacity: "},
       {"mix-blend-mode: "},
       {"font-family: '", "font-size: ", "font-weight: ", "line-height: ",
        "letter-spacing: ", "text-align: ", "text-decoration: ",
        "text-transform: uppercase;", "text-transform: lowercase;",
        "text-transform: capitalize;"} \cup AlignItemsProps,
       {"display: flex;", "align-items: center;"} >>

\* the groups the declaration `decl` can belong to
GroupsOf(decl, is_text) ==
    (IF decl[1] \in LayoutProps THEN {0} ELSE {})
    \cup {g \in 1..6 : decl[1] \in GroupProps[g]}
    \cup {g \in 7..8 : is_text /\ decl[1] \in GroupProps[g]}

\* the declarations of `styles` can be put into groups that never decrease,
\* starting at group `from`
RECURSIVE InGroupOrder(_, _, _)
InGroupOrder(styles, is_text, from) ==
    IF styles = <<>> THEN TRUE
    ELSE LET allowed == {g \in GroupsOf(styles[1], is_text) : g >= from}
         IN  /\ allowed # {}
             /\ InGroupOrder(Tail(styles), is_text,
                             CHOOSE g \in allowed : \A h \in allowed : g <= h)

\* a node that carries nothing but an id, a type, a name, its text and a
\* bounding box with positive x, y, width and height
OnlyBox(node) ==
    /\ DOMAIN node \subseteq {"id", "type", "name", "characters", "absoluteBoundingBox"}
    /\ "absoluteBoundingBox" \in DOMAIN node
    /\ \A k \in {"x", "y", "width", "height"} : Get(node["absoluteBoundingBox"], k, 0) > 0

\* C15: every registered style list is the layout declarations followed by
\* the declarations of fills, strokes, corner radius, effects, opacity and
\* blend mode in this order, then for a TEXT node its typography and the
\* text-centering declarations; the list of a parentless TEXT node with only
\* a bounding box is exactly position, left, top, width, height,
\* display: flex, align-items: center.
C15_DeclarationOrder ==
    \A i \in DOMAIN trace :
        trace[i].outcome = "emitted" =>
            LET e == trace[i]
                styles == StylesOf(e.class_name)
                box == Get(e.node, "absoluteBoundingBox", EmptyDict)
            IN  /\ InGroupOrder(styles, IsText(e), 0)
                /\ (IsText(e) /\ e.parent = None /\ OnlyBox(e.node)) =>
                      styles = << <<"position: absolute;">>,
                                  <<"left: ">> \o IntToStr(box.x) \o <<"px;">>,
                                  <<"top: ">> \o IntToStr(box.y) \o <<"px;">>,
                                  <<"width: ">> \o IntToStr(box.width) \o <<"px;">>,
                                  <<"height: ">> \o IntToStr(box.height) \o <<"px;">>,
                                  <<"display: flex;">>, <<"align-items: center;">> >>

\* a conversion has registered a list with declarations of the layout and
\* of each of the six visual groups
C15_Witness ==
    /\ Returned
    /\ \E i \in DOMAIN trace :
          /\ trace[i].outcome = "emitted"
          /\ LET styles == StylesOf(trace[i].class_name)
             IN  /\ styles[1][1] \in LayoutProps
                 /\ \A g \in 1..6 : \E k \in DOMAIN styles : styles[k][1] \in GroupProps[g]

GradientKinds == {"GRADIENT_LINEAR", "GRADIENT_RADIAL", "GRADIENT_ANGULAR"}

\* the visible gradient strokes of a node that have at least one stop
GradientStrokes(node) ==
    SelectSeq(Get(node, "strokes", <<>>),
              LAMBDA stroke : /\ Get(stroke, "visible", TRUE)
                              /\ Get(stroke, "type", "") \in GradientKinds
                              /\ Get(stroke, "gradientStops", <<>>) # <<>>)

\* the places of a style list where a border shorthand without a colour is
\* directly followed by a border-image declaration
BorderImagePairs(styles) ==
    {k \in DOMAIN styles :
        /\ k < Len(styles)
        /\ styles[k][1] = "border: " /\ styles[k][Len(styles[k])] = "px solid;"
        /\ styles[k + 1][1] = "border-image: "}

\* C16: for an emitted node with strokeWeight # 0 every visible stroke of a
\* gradient kind (linear, radial, angular) with at least one stop gives a
\* border shorthand followed by a border-image declaration; a node whose
\* strokes are empty or whose strokeWeight is 0 gets no border declaration.
C16_GradientStrokes ==
    \A i \in DOMAIN trace :
        trace[i].outcome = "emitted" =>
            LET node == trace[i].node
                styles == StylesOf(trace[i].class_name)
            IN  IF Get(node, "strokes", <<>>) = <<>> \/ Get(node, "strokeWeight", 0) = 0
                THEN \A k \in DOMAIN styles : styles[k][1] \notin GroupProps[2]
                ELSE Cardinality(BorderImagePairs(styles)) = Len(GradientStrokes(node))

\* the ids of all nodes under `node`, itself included, in document order
RECURSIVE PreOrderIds(_)
PreOrderIds(node) ==
    LET children == Get(node, "children", <<>>)
        below == [k \in DOMAIN children |-> PreOrderIds(children[k])]
        flat[k \in 0..Len(children)] == IF k = 0 THEN <<>> ELSE flat[k - 1] \o below[k]
    IN  <<node.id>> \o flat[Len(children)]

\* the places where a rule block of the stylesheet `css` opens
RuleOpens(css) ==
    SelectSeq([i \in DOMAIN css |-> i], LAMBDA i : i > 1 /\ css[i] = "." /\ css[i - 1] = "\n")

\* the first place after i where the stylesheet holds the piece `piece`
NextPiece(css, i, piece) ==
    CHOOSE j \in DOMAIN css :
        /\ j > i /\ css[j] = piece
        /\ \A k \in (i + 1)..(j - 1) : css[k] # piece

\* the rule blocks of a stylesheet, in their order: the selector's class and
\* the text between the braces
RuleBlocks(css) ==
    LET opens == RuleOpens(css)
    IN  [n \in DOMAIN opens |->
            LET brace == NextPiece(css, opens[n], " {")
                close == NextPiece(css, brace, "}\n")
            IN  [class_name |-> SubSeq(css, opens[n] + 1, brace - 1),
                 body |-> SubSeq(css, brace + 1, close - 1)]]

\* the text a declaration list takes between the braces of its rule block
RuleBody(styles) ==
    <<"\n">> \o Join([k \in DOMAIN styles |-> <<"    ">> \o styles[k]], "\n") \o <<"\n">>

NonEmptyEntries == SelectSeq(css_classes, LAMBDA entry : entry.styles # <<>>)

\* the entries the running (or last) conversion has inserted are the last
\* ones of the side table, one per emitted node, in the order of the visits,
\* which is the document order of the emitted nodes
InsertedInDocumentOrder ==
    LET stale == Len(css_classes) - Len(Emitted)
        ids == [i \in DOMAIN Emitted |-> Emitted[i].node.id]
    IN  /\ stale >= 0
        /\ \A i \in DOMAIN Emitted :
              css_classes[stale + i]
                  = [class_name |-> Emitted[i].class_name,
                     styles |-> _collect_styles(Emitted[i].node, Emitted[i].parent)]
        /\ figma_data # None /\ DocChildren(figma_data) # <<>> =>
              ids = SelectSeq(PreOrderIds(DocChildren(figma_data)[1]),
                              LAMBDA id : id \in Range(ids))

\* the returned stylesheet is the base block followed by one rule block per
\* entry with a non-empty list, in the order of the table, and the elements
\* of the returned markup open in the order of the entries of this conversion
StylesheetFollowsTable ==
    (Returned /\ DocChildren(figma_data) # <<>>) =>
        /\ result.css[1] = BaseBlock
        /\ RuleBlocks(result.css)
              = [n \in DOMAIN NonEmptyEntries |->
                    [class_name |-> NonEmptyEntries[n].class_name,
                     body |-> RuleBody(NonEmptyEntries[n].styles)]]
        /\ ElementClasses(result.html) = [i \in DOMAIN Emitted |-> Emitted[i].class_name]

\* a step of a conversion leaves every entry of the side table in its place
\* and only adds entries behind them
TableOnlyGrows ==
    /\ Len(css_classes') >= Len(css_classes)
    /\ SubSeq(css_classes', 1, Len(css_classes)) = css_classes

ElementContent(html, class_name) ==
    LET open == CHOOSE i \in DOMAIN html :
                    /\ html[i] = "<div class=\""
                    /\ i + Len(class_name) + 1 <= Len(html)
                    /\ SubSeq(html, i + 1, i + Len(class_name)) = class_name
                    /\ html[i + Len(class_name) + 1] = "\">"
        start == open + Len(class_name) + 1
    IN  SubSeq(html, start + 1, NextPiece(html, start, "</div>") - 1)

\* how many times the character c occurs in the text
Count(text, c) == Cardinality({i \in DOMAIN text : text[i] = c})

\* the emitted TEXT nodes of a conversion that has returned
EmittedTexts == {i \in DOMAIN trace : trace[i].outcome = "emitted" /\ IsText(trace[i])}

\* C18: the element of a TEXT node is '<div class="C">T</div>' with T the
\* characters string in which '&', '<', '>', '"' and "'" are replaced by
\* their entities and then every newline by '<br>': T holds no quote and no
\* '<' or '>' other than those of the '<br>' markers, one marker per newline
\* of the input, and C is made of alphanumerics, '-' and '_' only.
C18_TextInert ==
    Returned =>
        \A i \in EmittedTexts :
            LET text == Get(trace[i].node, "characters", <<>>)
                class == trace[i].class_name
                T == ElementContent(result.html, class)
            IN  /\ T = EscapeText(text)
                /\ Count(T, "<") = Count(text, "\n")
                /\ Count(T, ">") = Count(text, "\n")
                /\ \A k \in DOMAIN T :
                      /\ T[k] \notin {"\"", "'", "\n"}
                      /\ T[k] = "<" =>
                            k + 3 <= Len(T) /\ SubSeq(T, k, k + 3) = <<"<", "b", "r", ">">>
                      /\ T[k] = ">" => k > 3 /\ SubSeq(T, k - 3, k) = <<"<", "b", "r", ">">>
                      /\ T[k] = "&" => \E n \in 3..5 :
                            /\ k + n <= Len(T) /\ T[k + n] = ";"
                            /\ SubSeq(T, k + 1, k + n - 1)
                                   \in {<<"a", "m", "p">>, <<"l", "t">>, <<"g", "t">>,
                                        <<"q", "u", "o", "t">>, <<"#", "x", "2", "7">>}
                /\ class[1] = "figma-"
                /\ \A k \in 2..Len(class) : class[k] \in SafeChars

\* a conversion has returned the element of a TEXT node whose characters
\* hold markup and a newline
C18_Witness ==
    /\ Returned
    /\ \E i \in EmittedTexts :
          LET text == Get(trace[i].node, "characters", <<>>)
          IN  /\ "<" \in Range(text) /\ ">" \in Range(text) /\ "\n" \in Range(text)
              /\ Len(ElementContent(result.html, trace[i].class_name)) > Len(text)

\* the ids of the nodes under `node` that a walk starting at it visits, in
\* document order: all but the nodes below an invisible node that is not a
\* DOCUMENT or CANVAS node
RECURSIVE VisitedIds(_)
VisitedIds(node) ==
    LET children == Get(node, "children", <<>>)
        below == [k \in DOMAIN children |-> VisitedIds(children[k])]
        flat[k \in 0..Len(children)] == IF k = 0 THEN <<>> ELSE flat[k - 1] \o below[k]
    IN  IF ~IsStructural(node) /\ ~IsVisible(node) THEN <<node.id>>
        ELSE <<node.id>> \o flat[Len(children)]

TraceIds == [i \in DOMAIN trace |-> trace[i].node.id]

\* the visits so far are the first ones of the walk of the first page, and
\* all of them once the conversion has returned
VisitsFirstPageInOrder ==
    (calls >= 1 /\ DocChildren(figma_data) # <<>>) =>
        LET expected == VisitedIds(DocChildren(figma_data)[1])
        IN  /\ Len(trace) <= Len(expected)
            /\ TraceIds = SubSeq(expected, 1, Len(trace))
            /\ \A i, j \in DOMAIN trace : TraceIds[i] = TraceIds[j] => i = j
            /\ Returned => TraceIds = expected

\* C19: every conversion terminates; it visits each node of the first page
\* at most once, exactly once when no ancestor is an invisible node other
\* than a DOCUMENT or CANVAS node, the children in their given order,
\* below shapes and nodes of unknown type as below containers, and no node
\* of another page.
C19_SinglePass ==
    /\ []VisitsFirstPageInOrder
    /\ (pc = "walk") ~> (pc = "idle")

\* a conversion has returned that went below a shape or a node of unknown
\* type, skipped an invisible node there and went on to the next sibling
C19_Witness ==
    /\ Returned
    /\ Len(trace) >= 4
    /\ \E i \in DOMAIN trace :
          /\ trace[i].parent # None
          /\ Get(trace[i].parent, "type", "") \in {"RECTANGLE", "SLICE"}
          /\ trace[i].outcome = "invisible"
    /\ \E i \in DOMAIN trace : Get(trace[i].node, "type", "") = "ELLIPSE"

====
